---- MODULE Spec2Model ----
(***************************************************************************)
(* A model of newapi-checkin: main (src/checkin.py) loads the config and   *)
(* the cookie cache, optionally logs in to the identity provider           *)
(* (src/linuxdo.py), runs process_account for every account in order,      *)
(* saves the cache and closes the browser.                                 *)
(*                                                                         *)
(* The browser, the panels and the identity provider are the environment:  *)
(* every awaited browser call either completes or raises, chosen with \E.  *)
(* close() of a context or page and the logging calls are taken to         *)
(* complete.                                                               *)
(***************************************************************************)
EXTENDS Integers, Sequences, FiniteSets, TLC

\* ---------------------------------------------------------------- bounds
MaxAccounts == 2
MaxNotifiers == 1
MaxSinks == 2

\* ------------------------------------------------------------- constants
QUOTA_DIVISOR == 500000

\* Python's None, where a string is expected.
None == "<None>"

\* The panels the accounts and the cache file name.
Domains == {"d1", "d2"}

\* Raw quota numbers a panel reports; 5000000 and 5002000 round to the same
\* balance, 6000000 to a larger one.
RawQuotas == {5000000, 5002000, 6000000}

NoQuota == -1

\* ------------------------------------------------------- cookie mappings
\* A cookie mapping (a Python dict name -> value) is a set of <<name, value>>
\* pairs with one pair per name.
OldCookies == {<<"session", "old">>, <<"cf", "x">>}
NewCookies == {<<"session", "new">>}
EmptyCookies == {}

\* A cache entry; present = FALSE stands for "no key for this domain".
NoEntry == [present |-> FALSE, api_user |-> None, cookies |-> EmptyCookies]
OldEntry == [present |-> TRUE, api_user |-> "7", cookies |-> OldCookies]

EmptyCache == [d \in Domains |-> NoEntry]

\* The mappings an earlier run can have written to cookies_cache.json.
CacheContents == [Domains -> {NoEntry, OldEntry}]

\* cookies_cache.json on disk: missing, unreadable, or a mapping.
CacheFiles ==
    {[state |-> "missing", content |-> EmptyCache],
     [state |-> "corrupt", content |-> EmptyCache]}
    \cup {[state |-> "ok", content |-> c] : c \in CacheContents}

\* linuxdo_state.json on disk: missing, unreadable, holding a session that is
\* still valid, or holding an expired one.
StateFiles == {"missing", "corrupt", "valid", "expired"}

\* An account entry of the config: a mapping with a domain, a mapping without
\* one, or a value that is no mapping at all (a string, a number, null).
Accounts ==
    {[is_dict |-> TRUE, domain |-> d] : d \in Domains \cup {""}}
    \cup {[is_dict |-> FALSE, domain |-> ""]}

NoAccount == [is_dict |-> TRUE, domain |-> ""]

\* The "notifications" list of the config: entries by type.
NotifyConfigs ==
    UNION {[1..n -> {"ntfy", "other"}] : n \in 0..MaxNotifiers}

\* ---------------------------------------------------------------- notify
\* create_notifiers: one notifier per entry of type ntfy, in order; a
\* notifier is named by the position of its entry.
RECURSIVE create_notifiers_from(_, _)
create_notifiers_from(config_list, k) ==
    IF k > Len(config_list) THEN <<>>
    ELSE (IF config_list[k] = "ntfy" THEN <<k>> ELSE <<>>)
         \o create_notifiers_from(config_list, k + 1)

create_notifiers(config_list) == create_notifiers_from(config_list, 1)

\* What requests.post to a sink meets: the POST goes through, the connection
\* fails (post raises), or the sink answers with an error status
\* (raise_for_status raises).
SinkOutcomes == {"ok", "connection_error", "http_error"}

\* The titles send_notifications is called with.
Titles == {"checkin_success", "checkin_error", "login_success", "login_error"}

\* The "notifications" lists send_notifications is exercised with on its own.
SinkConfigs ==
    UNION {[1..n -> {"ntfy", "other"}] : n \in 0..MaxSinks}

\* send without its try/except: a failed delivery raises.
NtfyNotifier_send_NoExcept(outcome) ==
    [delivered |-> outcome = "ok", raised |-> outcome # "ok"]

\* NtfyNotifier.send: whether the message was delivered and whether send
\* raises; `except Exception` takes both kinds of failure.
NtfyNotifier_send(outcome) ==
    [delivered |-> outcome = "ok", raised |-> FALSE]

\* send_notifications: nothing without notifiers, else one send per notifier
\* in order. The result is the list of sends made.
send_notifications(ns, title) ==
    [k \in 1..Len(ns) |-> [title |-> title, sink |-> ns[k]]]

\* ----------------------------------------------------------------- cache
load_cookies_cache(file) ==
    IF file.state = "ok" THEN file.content ELSE EmptyCache

save_cookies_cache(cache) == [state |-> "ok", content |-> cache]

\* The update done as a merge: cookies of the old entry whose names the new
\* mapping does not have are kept.
update_cookies_cache_Merged(cache, domain, api_user, cookies) ==
    [cache EXCEPT ![domain] =
        [present |-> TRUE, api_user |-> api_user,
         cookies |-> cookies \cup
                     {p \in @.cookies : \A q \in cookies : q[1] # p[1]}]]

\* cache[domain] = {'api_user': api_user, 'cookies': cookies}
update_cookies_cache(cache, domain, api_user, cookies) ==
    [cache EXCEPT ![domain] =
        [present |-> TRUE, api_user |-> api_user, cookies |-> cookies]]

\* cookies_cache.get(domain), and the truth value `if cached:` tests.
cache_get(cache, domain) ==
    IF domain \in DOMAIN cache THEN cache[domain] ELSE NoEntry

IsCached(entry) == entry.present

\* ------------------------------------------------------------- get_quota
\* A reply to GET {domain}/api/user/self as get_quota reads it: whether the
\* navigation raised, whether there is a response, its ok flag, what
\* json.loads makes of the body, and the fields of the decoded object.
GoodResponse ==
    [raised |-> FALSE, present |-> TRUE, ok |-> TRUE, json |-> "object",
     success |-> TRUE, data |-> "object", quota_type |-> "number",
     quota |-> 0]

\* The malformed replies: no response, a non-OK status, a body that is not
\* JSON, a falsy success field, a body that is no object, a null data field,
\* a null or non-numeric quota field.
MalformedResponses ==
    {[GoodResponse EXCEPT !.present = FALSE],
     [GoodResponse EXCEPT !.ok = FALSE],
     [GoodResponse EXCEPT !.json = "invalid"],
     [GoodResponse EXCEPT !.success = FALSE],
     [GoodResponse EXCEPT !.json = "array"],
     [GoodResponse EXCEPT !.json = "null"],
     [GoodResponse EXCEPT !.data = "null"],
     [GoodResponse EXCEPT !.quota_type = "null"],
     [GoodResponse EXCEPT !.quota_type = "string"]}

WellFormedResponses ==
    {[GoodResponse EXCEPT !.quota = q] : q \in RawQuotas}
    \cup {[GoodResponse EXCEPT !.data = "absent"],
          [GoodResponse EXCEPT !.quota_type = "absent"]}

BalanceResponses ==
    {[GoodResponse EXCEPT !.raised = TRUE]}
    \cup MalformedResponses \cup WellFormedResponses

NoResponse == [GoodResponse EXCEPT !.json = "unset"]

\* round(q / QUOTA_DIVISOR, 2), kept in hundredths. None of RawQuotas is a
\* tie, so rounding to nearest is all round() does here.
RoundedQuota(q) == (2 * 100 * q + QUOTA_DIVISOR) \div (2 * QUOTA_DIVISOR)

Raises(e) == [exc |-> e, quota |-> NoQuota]
Returns(q) == [exc |-> "none", quota |-> q]

\* get_quota: the exception it raises ("none" when it returns) and the
\* balance it returns.
get_quota(r) ==
    IF r.raised THEN Raises("Error")
    ELSE IF ~r.present THEN Raises("HTTPError")
    ELSE IF ~r.ok THEN Raises("HTTPError")
    ELSE IF r.json = "invalid" THEN Raises("HTTPError")
    ELSE IF r.json # "object" THEN Raises("AttributeError")
    ELSE IF ~r.success THEN Raises("HTTPError")
    ELSE IF r.data = "null" THEN Raises("AttributeError")
    ELSE IF r.data = "absent" THEN Returns(RoundedQuota(0))
    ELSE IF r.quota_type = "absent" THEN Returns(RoundedQuota(0))
    ELSE IF r.quota_type # "number" THEN Raises("TypeError")
    ELSE Returns(RoundedQuota(r.quota))

\* The comparison with >= in the place of >.
QuotaIncreased_OrEqual(new_quota, old_quota) == new_quota >= old_quota

\* new_quota > old_quota
QuotaIncreased(new_quota, old_quota) == new_quota > old_quota

\* --------------------------------------------------------- login_linuxdo
\* What the fresh login meets: creating the context or page raises, the
\* login page redirects (already logged in), the form login succeeds (and
\* saving the state then succeeds or raises), or a step of the login raises.
FreshLogins ==
    {"context_raise", "redirected", "login_ok", "login_ok_save_raise",
     "login_raise"}

\* login_linuxdo: whether it raises, the context it returns (None, a
\* logged-in one or one that is not logged in) and the notifications it
\* sends. A saved state that is expired or unreadable leads to the fresh
\* login, as a missing one does.
login_linuxdo(state_file, fresh, ns) ==
    IF state_file = "valid"
    THEN [raised |-> FALSE, context |-> "logged_in", notes |-> <<>>]
    ELSE IF fresh = "context_raise"
    THEN [raised |-> TRUE, context |-> None, notes |-> <<>>]
    ELSE IF fresh = "redirected"
    THEN [raised |-> FALSE, context |-> "logged_in", notes |-> <<>>]
    ELSE IF fresh = "login_ok"
    THEN [raised |-> FALSE, context |-> "logged_in",
          notes |-> send_notifications(ns, "login_success")]
    ELSE IF fresh = "login_ok_save_raise"
    THEN [raised |-> FALSE, context |-> "logged_in",
          notes |-> send_notifications(ns, "login_success")
                    \o send_notifications(ns, "login_error")]
    ELSE [raised |-> FALSE, context |-> "not_logged_in",
          notes |-> send_notifications(ns, "login_error")]

\* ------------------------------------------------------- oauth_authorize
\* What the OAuth flow meets: whether a navigation or request raises, the
\* state string the panel hands out, whether the browser ends up back on
\* the panel, localStorage.user (None or an id) and the panel's cookies.
OAuthFlows ==
    [raised : BOOLEAN, state : {"", "s"}, redirected : BOOLEAN,
     user : {None, "8"}, cookies : {EmptyCookies, NewCookies}]

NoResult ==
    [raised |-> FALSE, api_user |-> None, cookies_none |-> TRUE,
     cookies |-> EmptyCookies]

\* oauth_authorize: (None, None) on an empty state or a missing redirect,
\* else (api_user, cookies_dict) as found.
oauth_authorize(flow) ==
    IF flow.raised THEN [NoResult EXCEPT !.raised = TRUE]
    ELSE IF flow.state = "" THEN NoResult
    ELSE IF ~flow.redirected THEN NoResult
    ELSE [raised |-> FALSE, api_user |-> flow.user, cookies_none |-> FALSE,
          cookies |-> flow.cookies]

\* The test with the cookie mapping left out of it.
OAuthNonEmpty_ApiUserOnly(result) ==
    /\ result.api_user # None
    /\ result.api_user # ""

\* `if api_user and cookies_dict:`
OAuthNonEmpty(result) ==
    /\ result.api_user # None
    /\ result.api_user # ""
    /\ ~result.cookies_none
    /\ result.cookies # EmptyCookies

\* --------------------------------------------------------------- state
VARIABLES
    pc,               \* where main (or the process_account it runs) stands
    cache_file,       \* cookies_cache.json on disk
    num_accounts,     \* len(accounts) of the loaded config
    notifiers,        \* main's notifiers list
    credentials,      \* whether the config holds linuxdo email and password
    cookies_cache,    \* main's in-memory cookies_cache
    linuxdo_context,  \* main's linuxdo_context
    login_notes,      \* the notifications login_linuxdo sent
    i,                \* position of the for loop in accounts
    account,          \* accounts[i], the account being processed
    invoked,          \* number of process_account calls made so far
    acct,             \* locals and effects of the running process_account
    save_count,       \* number of times cookies_cache.json was written
    main_exc,         \* the exception main's except clause caught
    notify            \* a send_notifications call followed send by send

vars ==
    <<pc, cache_file, num_accounts, notifiers, credentials,
      cookies_cache, linuxdo_context, login_notes, i, account, invoked,
      acct, save_count, main_exc, notify>>

configVars == <<num_accounts, notifiers, credentials>>

\* No send_notifications call is being followed.
NoNotify == [title |-> "", outcomes |-> <<>>, k |-> 0, sent |-> <<>>]

\* The locals of one process_account call and what that call has done.
AcctInit ==
    [cached |-> FALSE,            \* `if cached:` was taken
     path |-> "none",             \* which attempt _run_checkin runs in
     fallback_context |-> "none", \* none, open or closed
     oauth_page |-> "none",       \* none, open or closed
     old_quota |-> NoQuota,
     new_quota |-> NoQuota,
     resp |-> NoResponse,         \* the reply the last get_quota call read
     quota_exc |-> "none",        \* what the last get_quota call raised
     quota_calls |-> 0,           \* get_quota calls made
     posts_cached |-> 0,          \* check-in POSTs of the cached attempt
     posts_oauth |-> 0,           \* check-in POSTs of the OAuth attempt
     steps |-> <<>>,              \* the requests of the running attempt
     oauth_attempts |-> 0,        \* oauth_authorize calls made
     oauth_result |-> NoResult,   \* what oauth_authorize returned
     completed |-> "none",        \* the attempt whose _run_checkin returned
     cached_failed |-> FALSE,     \* the cached attempt raised
     exc |-> "none",              \* the last exception a handler caught
     errlog |-> "none",           \* the logging.error call made
     notes |-> <<>>]              \* the notifications sent for the account

Init ==
    /\ pc = "start"
    /\ cache_file \in CacheFiles
    /\ num_accounts = 0
    /\ notifiers = <<>>
    /\ credentials = FALSE
    /\ cookies_cache = EmptyCache
    /\ linuxdo_context = None
    /\ login_notes = <<>>
    /\ i = 1
    /\ account = NoAccount
    /\ invoked = 0
    /\ acct = AcctInit
    /\ save_count = 0
    /\ main_exc = "none"
    /\ notify = NoNotify

\* ------------------------------------------------------------------ main
\* load_config raises (no config, or JSON that does not parse): the
\* exception leaves main, nothing else runs.
LoadConfigFail ==
    /\ pc = "start"
    /\ pc' = "crashed"
    /\ UNCHANGED <<notify, cache_file, configVars, cookies_cache,
                   linuxdo_context, login_notes, i, account, invoked, acct,
                   save_count, main_exc>>

\* load_config, create_notifiers and load_cookies_cache.
LoadConfig ==
    /\ pc = "start"
    /\ \E n \in 0..MaxAccounts, cfg \in NotifyConfigs, cred \in BOOLEAN :
        /\ num_accounts' = n
        /\ notifiers' = create_notifiers(cfg)
        /\ credentials' = cred
    /\ cookies_cache' = load_cookies_cache(cache_file)
    /\ pc' = "login"
    /\ UNCHANGED <<notify, cache_file, linuxdo_context, login_notes, i,
                   account, invoked, acct, save_count, main_exc>>

\* No credentials: linuxdo_context stays None.
NoLogin ==
    /\ pc = "login"
    /\ ~credentials
    /\ pc' = "loop"
    /\ UNCHANGED <<notify, cache_file, configVars, cookies_cache,
                   linuxdo_context, login_notes, i, account, invoked, acct,
                   save_count, main_exc>>

\* login_linuxdo under main's try: a raise leaves linuxdo_context None.
Login ==
    /\ pc = "login"
    /\ credentials
    /\ \E state_file \in StateFiles, fresh \in FreshLogins :
        LET r == login_linuxdo(state_file, fresh, notifiers) IN
        /\ linuxdo_context' = IF r.raised THEN None ELSE r.context
        /\ login_notes' = r.notes
    /\ pc' = "loop"
    /\ UNCHANGED <<notify, cache_file, configVars, cookies_cache, i, account,
                   invoked, acct, save_count, main_exc>>

\* `for account in accounts:` takes the next account and calls
\* process_account.
NextAccount ==
    /\ pc = "loop"
    /\ i <= num_accounts
    /\ \E a \in Accounts : account' = a
    /\ invoked' = invoked + 1
    /\ acct' = AcctInit
    /\ pc' = "process_account"
    /\ UNCHANGED <<notify, cache_file, configVars, cookies_cache,
                   linuxdo_context, login_notes, i, save_count, main_exc>>

\* The loop is over.
LoopExit ==
    /\ pc = "loop"
    /\ i > num_accounts
    /\ pc' = "save"
    /\ UNCHANGED <<notify, cache_file, configVars, cookies_cache,
                   linuxdo_context, login_notes, i, account, invoked, acct,
                   save_count, main_exc>>

SaveCookiesCache ==
    /\ pc = "save"
    /\ cache_file' = save_cookies_cache(cookies_cache)
    /\ save_count' = save_count + 1
    /\ pc' = "save_state"
    /\ UNCHANGED <<notify, configVars, cookies_cache, linuxdo_context,
                   login_notes, i, account, invoked, acct, main_exc>>

\* storage_state of the context, if there is one; a raise is logged only.
SaveState ==
    /\ pc = "save_state"
    /\ pc' = "finally"
    /\ UNCHANGED <<notify, cache_file, configVars, cookies_cache, linuxdo_context,
                   login_notes, i, account, invoked, acct, save_count,
                   main_exc>>

\* finally: close the context and the browser.
Finally ==
    /\ pc = "finally"
    /\ pc' = "done"
    /\ UNCHANGED <<notify, cache_file, configVars, cookies_cache,
                   linuxdo_context, login_notes, i, account, invoked, acct,
                   save_count, main_exc>>

\* ------------------------------------------------------- process_account
acctFrame ==
    <<notify, cache_file, configVars, linuxdo_context, login_notes, i,
      account, invoked, save_count, main_exc>>

\* `except HTTPError` / `except Exception` of process_account: the error is
\* logged and reported to the notifiers.
OuterHandler(a, e) ==
    [a EXCEPT !.exc = e,
              !.errlog = IF e = "HTTPError" THEN "http_error"
                         ELSE "execution_error",
              !.notes = @ \o send_notifications(notifiers, "checkin_error")]

\* The cached attempt's `except Exception` and `finally`: a warning, and the
\* fallback context is closed.
CachedHandler(a, e) ==
    [a EXCEPT !.exc = e, !.cached_failed = TRUE,
              !.fallback_context = "closed"]

\* The cached attempt without its `return`: step 2 follows in any case.
AfterCachedAttempt_NoReturn(raised) == "oauth_gate"

\* Where process_account goes after the cached attempt: `return` when it
\* ran through, on to step 2 when it raised.
AfterCachedAttempt(raised) == IF raised THEN "oauth_gate" ELSE "returned"

\* An exception raised inside _run_checkin or next to it: in the cached
\* attempt the inner handler takes it, in the OAuth attempt the page is
\* closed and the outer handler takes it.
Caught(a, e) ==
    IF a.path = "cached" THEN CachedHandler(a, e)
    ELSE OuterHandler([a EXCEPT !.oauth_page = "closed"], e)

CaughtPc(a) ==
    IF a.path = "cached" THEN AfterCachedAttempt(TRUE) ELSE "returned"

\* The test taking only a context that is not logged in for unavailable.
OAuthUnavailable_NotLoggedIn(context) == context = "not_logged_in"

\* `if not linuxdo_context:`
OAuthUnavailable(context) == context = None

\* _create_fallback_context: whether it raises, and the state of the context
\* it created by then.
FallbackOutcomes ==
    {"ok", "new_context_raise", "add_cookies_raise", "new_page_raise"}

_create_fallback_context(outcome) ==
    [raised |-> outcome # "ok",
     context |-> IF outcome = "new_context_raise" THEN "none" ELSE "open"]

\* linuxdo_context.new_page() and page.add_init_script() of step 2.
OAuthPageOutcomes == {"ok", "new_page_raise", "init_script_raise"}

oauth_new_page(outcome) ==
    [raised |-> outcome # "ok",
     page |-> IF outcome = "new_page_raise" THEN "none" ELSE "open"]

\* The head of process_account: account.get raises on an account that is no
\* mapping (main's except clause catches it and the loop is left); a missing
\* domain returns; else the cache is looked up.
ProcessAccountEntry ==
    /\ pc = "process_account"
    /\ IF ~account.is_dict
       THEN /\ main_exc' = "AttributeError"
            /\ pc' = "finally"
            /\ acct' = acct
       ELSE IF account.domain = ""
       THEN /\ pc' = "returned"
            /\ UNCHANGED <<acct, main_exc>>
       ELSE LET cached == cache_get(cookies_cache, account.domain) IN
            /\ acct' = [acct EXCEPT !.cached = IsCached(cached)]
            /\ pc' = IF IsCached(cached) THEN "create_context"
                     ELSE "oauth_gate"
            /\ main_exc' = main_exc
    /\ UNCHANGED <<notify, cache_file, configVars, cookies_cache,
                   linuxdo_context, login_notes, i, account, invoked,
                   save_count>>

\* Step 1: the fallback context is created, outside the inner try.
CreateFallbackContext ==
    /\ pc = "create_context"
    /\ \E outcome \in FallbackOutcomes :
        LET r == _create_fallback_context(outcome)
            a == [acct EXCEPT !.fallback_context = r.context] IN
        IF r.raised
        THEN /\ acct' = OuterHandler(a, "Error")
             /\ pc' = "returned"
        ELSE /\ acct' = [a EXCEPT !.path = "cached"]
             /\ pc' = "cached_goto"
    /\ UNCHANGED <<acctFrame, cookies_cache>>

\* page.goto(domain) and wait_for_load_state of the cached attempt.
CachedGoto ==
    /\ pc = "cached_goto"
    /\ \E raised \in BOOLEAN :
        IF raised
        THEN /\ acct' = Caught(acct, "Error")
             /\ pc' = CaughtPc(acct)
        ELSE /\ acct' = acct
             /\ pc' = "quota1"
    /\ UNCHANGED <<acctFrame, cookies_cache>>

\* An exception that leaves the awaited call without being caught.
Propagates_Swallowed(e) == FALSE

\* _run_checkin has no try: what get_quota raises leaves _run_checkin at
\* that line.
Propagates(e) == e # "none"

\* The request a get_quota call adds to the attempt's record.
QuotaStep(e) == IF e = "none" THEN "quota_ok" ELSE "quota_raised"

\* _run_checkin, first get_quota.
GetQuotaFirst ==
    /\ pc = "quota1"
    /\ \E r \in BalanceResponses :
        LET q == get_quota(r)
            a == [acct EXCEPT !.resp = r, !.quota_exc = q.exc,
                              !.quota_calls = @ + 1,
                              !.steps = Append(@, QuotaStep(q.exc))] IN
        IF Propagates(q.exc)
        THEN /\ acct' = Caught(a, q.exc)
             /\ pc' = CaughtPc(a)
        ELSE /\ acct' = [a EXCEPT !.old_quota = q.quota]
             /\ pc' = "checkin"
    /\ UNCHANGED <<acctFrame, cookies_cache>>

\* _run_checkin, do_checkin: the POST is issued; the evaluate or the wait
\* after it may raise.
DoCheckin ==
    /\ pc = "checkin"
    /\ \E raised \in BOOLEAN :
        LET a == IF acct.path = "cached"
                 THEN [acct EXCEPT !.posts_cached = @ + 1,
                                   !.steps = Append(@, "post")]
                 ELSE [acct EXCEPT !.posts_oauth = @ + 1,
                                   !.steps = Append(@, "post")] IN
        IF raised
        THEN /\ acct' = Caught(a, "Error")
             /\ pc' = CaughtPc(a)
        ELSE /\ acct' = a
             /\ pc' = "quota2"
    /\ UNCHANGED <<acctFrame, cookies_cache>>

\* _run_checkin, second get_quota and the comparison; then the attempt's
\* finally closes its context or page and process_account returns.
GetQuotaSecond ==
    /\ pc = "quota2"
    /\ \E r \in BalanceResponses :
        LET q == get_quota(r)
            a == [acct EXCEPT !.resp = r, !.quota_exc = q.exc,
                              !.quota_calls = @ + 1,
                              !.steps = Append(@, QuotaStep(q.exc))] IN
        IF Propagates(q.exc)
        THEN /\ acct' = Caught(a, q.exc)
             /\ pc' = CaughtPc(a)
        ELSE LET b == [a EXCEPT
                        !.new_quota = q.quota,
                        !.completed = a.path,
                        !.notes = IF QuotaIncreased(q.quota, a.old_quota)
                                  THEN @ \o send_notifications(notifiers,
                                                        "checkin_success")
                                  ELSE @] IN
             IF a.path = "cached"
             THEN /\ acct' = [b EXCEPT !.fallback_context = "closed"]
                  /\ pc' = AfterCachedAttempt(FALSE)
             ELSE /\ acct' = [b EXCEPT !.oauth_page = "closed"]
                  /\ pc' = "returned"
    /\ UNCHANGED <<acctFrame, cookies_cache>>

\* The locals of _run_checkin and get_quota are gone once the cached
\* attempt is over.
AttemptOver(a) ==
    [a EXCEPT !.old_quota = NoQuota, !.resp = NoResponse,
              !.quota_exc = "none", !.steps = <<>>]

\* Step 2: without a linuxdo context the account is skipped with an error
\* log; with one, OAuth is attempted.
OAuthGate ==
    /\ pc = "oauth_gate"
    /\ IF OAuthUnavailable(linuxdo_context)
       THEN /\ acct' = [AttemptOver(acct) EXCEPT !.errlog =
                         IF acct.cached
                         THEN "checkin_failed_oauth_unavailable"
                         ELSE "no_cache_oauth_unavailable"]
            /\ pc' = "returned"
       ELSE /\ acct' = AttemptOver(acct)
            /\ pc' = "oauth_page"
    /\ UNCHANGED <<acctFrame, cookies_cache>>

\* The OAuth page is opened, outside the try that closes it.
OAuthNewPage ==
    /\ pc = "oauth_page"
    /\ \E outcome \in OAuthPageOutcomes :
        LET r == oauth_new_page(outcome)
            a == [acct EXCEPT !.oauth_page = r.page, !.path = "oauth"] IN
        IF r.raised
        THEN /\ acct' = OuterHandler(a, "Error")
             /\ pc' = "returned"
        ELSE /\ acct' = a
             /\ pc' = "oauth_authorize"
    /\ UNCHANGED <<acctFrame, cookies_cache>>

\* oauth_authorize and what process_account does with its result: a
\* non-empty result is cached and the check-in follows; an empty one is
\* logged and the page is closed. A context that is not logged in never
\* gets the browser back to the panel.
OAuthAuthorize ==
    /\ pc = "oauth_authorize"
    /\ \E flow \in OAuthFlows :
        /\ (linuxdo_context # "logged_in") => ~flow.redirected
        /\ LET r == oauth_authorize(flow)
               a == [acct EXCEPT !.oauth_attempts = @ + 1,
                                 !.oauth_result = r] IN
           IF r.raised
           THEN /\ acct' = Caught(a, "Error")
                /\ pc' = "returned"
                /\ cookies_cache' = cookies_cache
           ELSE IF OAuthNonEmpty(r)
           THEN /\ cookies_cache' =
                     update_cookies_cache(cookies_cache, account.domain,
                                          r.api_user, r.cookies)
                /\ acct' = a
                /\ pc' = "quota1"
           ELSE /\ acct' = [a EXCEPT !.errlog = "oauth_empty",
                                     !.oauth_page = "closed"]
                /\ pc' = "returned"
                /\ cookies_cache' = cookies_cache
    /\ UNCHANGED acctFrame

\* process_account has returned, its locals are gone; the loop moves on.
Return ==
    /\ pc = "returned"
    /\ i' = i + 1
    /\ acct' = AcctInit
    /\ account' = NoAccount
    /\ pc' = "loop"
    /\ UNCHANGED <<notify, cache_file, configVars, cookies_cache,
                   linuxdo_context, login_notes, invoked, save_count,
                   main_exc>>

Next ==
    \/ LoadConfigFail
    \/ LoadConfig
    \/ NoLogin
    \/ Login
    \/ NextAccount
    \/ LoopExit
    \/ ProcessAccountEntry
    \/ CreateFallbackContext
    \/ CachedGoto
    \/ GetQuotaFirst
    \/ DoCheckin
    \/ GetQuotaSecond
    \/ OAuthGate
    \/ OAuthNewPage
    \/ OAuthAuthorize
    \/ Return
    \/ SaveCookiesCache
    \/ SaveState
    \/ Finally

Spec == Init /\ [][Next]_vars

\* ---------------------------------------- send_notifications on its own
\* send_notifications(notifiers, title, message) followed through its loop,
\* for every list of notifiers and every way the sinks answer.
InitNotify ==
    /\ pc = "notify_call"
    /\ cache_file = [state |-> "missing", content |-> EmptyCache]
    /\ num_accounts = 0
    /\ notifiers = <<>>
    /\ credentials = FALSE
    /\ cookies_cache = EmptyCache
    /\ linuxdo_context = None
    /\ login_notes = <<>>
    /\ i = 1
    /\ account = NoAccount
    /\ invoked = 0
    /\ acct = AcctInit
    /\ save_count = 0
    /\ main_exc = "none"
    /\ notify = NoNotify

notifyFrame ==
    <<cache_file, num_accounts, credentials, cookies_cache, linuxdo_context,
      login_notes, i, account, invoked, acct, save_count, main_exc>>

\* The call: `if not notifiers: return`, else the loop starts.
NotifyCall ==
    /\ pc = "notify_call"
    /\ \E cfg \in SinkConfigs, title \in Titles :
        LET ns == create_notifiers(cfg) IN
        /\ notifiers' = ns
        /\ \E outcomes \in [1..Len(ns) -> SinkOutcomes] :
            notify' = [title |-> title, outcomes |-> outcomes, k |-> 1,
                       sent |-> <<>>]
        /\ pc' = IF ns = <<>> THEN "notify_returned" ELSE "notify_loop"
    /\ UNCHANGED notifyFrame

\* One turn of `for notifier in notifiers: notifier.send(title, message)`;
\* a send that raised would leave send_notifications and reach its caller.
NotifySend ==
    /\ pc = "notify_loop"
    /\ notify.k <= Len(notifiers)
    /\ LET r == NtfyNotifier_send(notify.outcomes[notify.k]) IN
        /\ notify' = [notify EXCEPT
                        !.sent = Append(@, [title |-> notify.title,
                                            sink |-> notifiers[notify.k],
                                            delivered |-> r.delivered]),
                        !.k = @ + 1]
        /\ pc' = IF r.raised THEN "notify_raised" ELSE "notify_loop"
    /\ UNCHANGED <<notifyFrame, notifiers>>

\* The loop is over: send_notifications returns to its caller.
NotifyReturn ==
    /\ pc = "notify_loop"
    /\ notify.k > Len(notifiers)
    /\ pc' = "notify_returned"
    /\ UNCHANGED <<notifyFrame, notifiers, notify>>

NextNotify == NotifyCall \/ NotifySend \/ NotifyReturn

SpecNotify == InitNotify /\ [][NextNotify]_vars

\* ================================================================ claims
Posts == acct.posts_cached + acct.posts_oauth

HasNote(title) == \E k \in 1..Len(acct.notes) : acct.notes[k].title = title

\* C1: the cache entry of a domain changes only in the step in which
\* oauth_authorize for that domain returned a non-empty api_user together
\* with a non-empty cookie mapping, and what is stored then is that result;
\* on (None, None), a None api_user, an empty mapping or a raise every entry
\* stays what it was.
C1_CacheChangesOnlyOnOAuthSuccess ==
    [][pc # "start" =>
        \A d \in Domains :
            cookies_cache'[d] # cookies_cache[d] =>
                /\ pc = "oauth_authorize"
                /\ d = account.domain
                /\ acct'.oauth_attempts = acct.oauth_attempts + 1
                /\ ~acct'.oauth_result.raised
                /\ acct'.oauth_result.api_user \notin {None, ""}
                /\ ~acct'.oauth_result.cookies_none
                /\ acct'.oauth_result.cookies # EmptyCookies
                /\ cookies_cache'[d] =
                     [present |-> TRUE,
                      api_user |-> acct'.oauth_result.api_user,
                      cookies |-> acct'.oauth_result.cookies]]_vars

\* OAuth returned (None, cookies) for a domain with a cached entry, and the
\* entry is still the old one.
C1_Witness ==
    /\ acct.oauth_attempts = 1
    /\ acct.oauth_result.api_user = None
    /\ acct.oauth_result.cookies = NewCookies
    /\ cache_get(cookies_cache, account.domain) = OldEntry

C3_EveryAccountInvoked ==
    (pc = "done") => invoked = num_accounts

\* C4: with no linuxdo context and no cache entry for the account's domain,
\* process_account logs the error and returns: no context or page, no
\* balance or check-in request, no OAuth, the cache unchanged, no exception
\* to main.
C4_SkippedWithoutCacheAndOAuth ==
    [][(/\ pc \in {"process_account", "oauth_gate"}
        /\ account.is_dict
        /\ account.domain # ""
        /\ linuxdo_context = None
        /\ ~IsCached(cache_get(cookies_cache, account.domain)))
       =>
       (/\ pc' = IF pc = "process_account" THEN "oauth_gate" ELSE "returned"
        /\ (pc' = "returned") =>
               acct'.errlog = "no_cache_oauth_unavailable"
        /\ cookies_cache' = cookies_cache
        /\ main_exc' = "none"
        /\ acct'.exc = "none"
        /\ acct'.fallback_context = "none"
        /\ acct'.oauth_page = "none"
        /\ acct'.quota_calls = 0
        /\ acct'.posts_cached + acct'.posts_oauth = 0
        /\ acct'.oauth_attempts = 0
        /\ acct'.notes = <<>>)]_vars

\* An account was skipped for want of both cache entry and linuxdo context.
C4_Witness ==
    /\ pc = "returned"
    /\ linuxdo_context = None
    /\ ~acct.cached
    /\ acct.errlog = "no_cache_oauth_unavailable"

\* C5: on every malformed balance response get_quota raises HTTPError.
C5_MalformedRaisesHTTPError ==
    (acct.resp \in MalformedResponses) => acct.quota_exc = "HTTPError"

\* C6: with a notifier configured, every account whose processing ended in
\* a logged error has an error notification sent for it.
C6_ErrorsAreNotified ==
    (pc = "returned" /\ Len(notifiers) >= 1 /\ acct.errlog # "none") =>
        HasNote("checkin_error")

\* C7 as stated: per account at most one check-in POST and at most one OAuth
\* attempt in a run.
C7_AtMostOnePost ==
    Posts <= 1 /\ acct.oauth_attempts <= 1

\* C7 as amended: at most one POST in each attempt and at most one OAuth
\* attempt; when there was a cached attempt, the OAuth attempt (and with it a
\* second POST) comes only after the cached attempt raised.
C7_OnePostPerAttempt ==
    /\ acct.posts_cached <= 1
    /\ acct.posts_oauth <= 1
    /\ acct.oauth_attempts <= 1
    /\ (acct.cached /\ (acct.oauth_attempts >= 1 \/ acct.posts_oauth >= 1))
          => acct.cached_failed

\* The cached attempt raised after its POST, and the OAuth attempt posted
\* again.
C7_Witness ==
    /\ acct.posts_cached = 1
    /\ acct.posts_oauth = 1
    /\ acct.cached_failed

\* C8: main holds a linuxdo context only if the login state was confirmed,
\* so every OAuth attempt runs in a logged-in context.
C8_ContextIsLoggedIn ==
    /\ linuxdo_context \in {None, "logged_in"}
    /\ (acct.oauth_attempts >= 1) => linuxdo_context = "logged_in"

\* C9: when process_account returns, no context or page it created is open.
C9_ClosedOnReturn ==
    (pc = "returned") =>
        acct.fallback_context # "open" /\ acct.oauth_page # "open"

\* C10: a run whose config loaded ends with the cache file written once,
\* holding the in-memory mapping.
C10_CacheSavedOnce ==
    (pc = "done") =>
        save_count = 1 /\ cache_file = save_cookies_cache(cookies_cache)

\* C11: send_notifications attempts every configured sink in order and
\* returns to its caller, whichever sinks fail: no send raises out of it, a
\* failed sink does not stop the loop, and the sends made are those the
\* callers count on.
C11_EverySinkAttempted ==
    /\ pc # "notify_raised"
    /\ (pc = "notify_loop") => Len(notify.sent) = notify.k - 1
    /\ (pc = "notify_returned") =>
          /\ Len(notify.sent) = Len(notifiers)
          /\ \A k \in 1..Len(notify.sent) :
                /\ notify.sent[k].sink = notifiers[k]
                /\ notify.sent[k].delivered = (notify.outcomes[k] = "ok")
          /\ [k \in 1..Len(notify.sent) |->
                [title |-> notify.sent[k].title, sink |-> notify.sent[k].sink]]
             = send_notifications(notifiers, notify.title)

\* The first of two sinks failed, the second was sent to and
\* send_notifications returned.
C11_Witness ==
    /\ pc = "notify_returned"
    /\ Len(notifiers) = 2
    /\ notify.outcomes[1] = "connection_error"
    /\ Len(notify.sent) = 2
    /\ ~notify.sent[1].delivered
    /\ notify.sent[2].delivered

\* C12: the requests of a check-in attempt come in the order fetch, POST,
\* fetch: no POST before a first fetch that returned, no second fetch before
\* the POST, and nothing after a first fetch that raised.
C12_FetchPostFetch ==
    /\ acct.steps \in
          {<<>>,
           <<"quota_raised">>,
           <<"quota_ok">>,
           <<"quota_ok", "post">>,
           <<"quota_ok", "post", "quota_ok">>,
           <<"quota_ok", "post", "quota_raised">>}
    /\ (pc = "checkin") => acct.steps = <<"quota_ok">>
    /\ (pc = "quota2") => acct.steps = <<"quota_ok", "post">>

\* The first fetch of the OAuth attempt raised and the attempt ended with
\* no POST sent.
C12_Witness ==
    /\ pc = "returned"
    /\ acct.path = "oauth"
    /\ acct.steps = <<"quota_raised">>
    /\ acct.posts_oauth = 0

\* C13: an update of the cache for a domain replaces the whole entry by
\* {api_user, cookies} as the OAuth flow returned them, with no cookie of the
\* previous entry carried over, and leaves the entries of all other domains
\* as they were.
C13_EntryReplacedWholesale ==
    [][(pc # "start" /\ cookies_cache' # cookies_cache) =>
        LET new == cookies_cache'[account.domain]
            old == cookies_cache[account.domain]
            result == acct'.oauth_result IN
        /\ new.present
        /\ new.api_user = result.api_user
        /\ new.cookies = result.cookies
        /\ (new.cookies \cap old.cookies) \subseteq result.cookies
        /\ {p[1] : p \in new.cookies} = {p[1] : p \in result.cookies}
        /\ \A d \in Domains \ {account.domain} :
              cookies_cache'[d] = cookies_cache[d]]_vars

\* The entry loaded for a domain, with the cookies session and cf, has been
\* replaced by the OAuth result, which has session only; the other
\* domain's entry is still the loaded one.
C13_Witness ==
    \E d \in Domains, e \in Domains :
        /\ d # e
        /\ cache_file.state = "ok"
        /\ cache_file.content[d] = OldEntry
        /\ cache_file.content[e] = OldEntry
        /\ cookies_cache[d] =
              [present |-> TRUE, api_user |-> "8", cookies |-> NewCookies]
        /\ cookies_cache[e] = OldEntry

C15_FreshCookiesKept ==
    /\ (/\ pc = "returned"
        /\ acct.path = "oauth"
        /\ acct.oauth_attempts = 1
        /\ OAuthNonEmpty(acct.oauth_result)
        /\ acct.completed = "none")
       =>
       (/\ cookies_cache[account.domain] =
              [present |-> TRUE, api_user |-> acct.oauth_result.api_user,
               cookies |-> acct.oauth_result.cookies]
        /\ acct.exc # "none"
        /\ (Len(notifiers) >= 1) => HasNote("checkin_error"))
    /\ (pc = "done") =>
          \A d \in Domains :
              (cookies_cache[d].present /\ cookies_cache[d] # OldEntry) =>
                 /\ cache_file.state = "ok"
                 /\ cache_file.content[d] = cookies_cache[d]

\* C16: an account gets at most one success notification in a run (one send
\* to each notifier), and a cached attempt that sent it is not followed by
\* an OAuth check-in for the account.
C16_AtMostOneSuccess ==
    /\ Cardinality({k \in 1..Len(acct.notes) :
                      acct.notes[k].title = "checkin_success"})
          <= Len(notifiers)
    /\ (acct.completed = "cached" /\ HasNote("checkin_success")) =>
          /\ acct.path = "cached"
          /\ acct.oauth_attempts = 0
          /\ acct.posts_oauth = 0
          /\ pc = "returned"

\* The cached attempt sent the success notification while a logged-in
\* context was at hand, and the account is done.
C16_Witness ==
    /\ pc = "returned"
    /\ linuxdo_context = "logged_in"
    /\ acct.completed = "cached"
    /\ HasNote("checkin_success")
    /\ acct.posts_cached = 1

====
